---- MODULE Spec2Model ----
(***************************************************************************)
(* Model of convert_to_icns.py: the IconConverter class (convert, the ICNS *)
(* and ICO back ends, batch_convert) and main.                             *)
(***************************************************************************)
EXTENDS Integers, Sequences, FiniteSets, TLC

(***************************************************************************)
(* Program constants.                                                      *)
(***************************************************************************)
ICNS_SIZES == <<16, 32, 64, 128, 256, 512, 1024>>

ICO_SIZES == <<16, 24, 32, 48, 64, 128, 256>>

SUPPORTED_FORMATS == {".png", ".jpg", ".jpeg", ".bmp", ".tiff", ".tif", ".gif", ".webp"}

\* min_size of an ICNS conversion (convert).
IcnsMinSize == 1024

\* min_required of an ICO conversion that does not upscale (convert).
IcoMinRequired == 16

\* Sizes below this one also get an @2x entry (_create_iconset).
DoubleBelow == 512

\* Width of the significand of a Python float (IEEE 754 binary64).
MantBits == 53

\* The significand is kept in three limbs of LimbBits bits, because it does
\* not fit a TLC integer.
LimbBits == MantBits \div 3 + 1

(***************************************************************************)
(* Helpers on numbers and sequences.                                       *)
(***************************************************************************)
Min(a, b) == IF a <= b THEN a ELSE b

Range(s) == {s[i] : i \in 1..Len(s)}

RECURSIVE SeqMax(_)
SeqMax(s) ==
  IF Len(s) = 1 THEN s[1]
  ELSE LET m == SeqMax(Tail(s)) IN IF s[1] >= m THEN s[1] ELSE m

RECURSIVE Pow2(_)
Pow2(k) == IF k = 0 THEN 1 ELSE 2 * Pow2(k - 1)

\* Number of bits of n: 0 for 0, 1 for 1, 2 for 2 and 3, ...
RECURSIVE BitLen(_)
BitLen(n) == IF n = 0 THEN 0 ELSE 1 + BitLen(n \div 2)

(***************************************************************************)
(* Python float arithmetic, as far as _upscale_if_needed uses it: positive *)
(* normal numbers, round to nearest, ties to even.  A float is             *)
(*   [hi, mid, lo |-> limbs of the MantBits-bit significand, e |-> exponent*)
(*    of its last bit]                                                     *)
(* and stands for (hi * B^2 + mid * B + lo) * 2^e with B = 2^LimbBits.     *)
(***************************************************************************)
Base == Pow2(LimbBits)

\* The top limb of a normalised significand is below this.
HiLimit == Pow2(MantBits - 2 * LimbBits)

\* The significand plus one when up, renormalised when that carries out.
Rounded(hi, mid, lo, e, up) ==
  LET lo1  == IF up THEN lo + 1 ELSE lo
      mid1 == mid + lo1 \div Base
      hi1  == hi + mid1 \div Base
  IN  IF hi1 = HiLimit
      THEN [hi |-> HiLimit \div 2, mid |-> 0, lo |-> 0, e |-> e + 1]
      ELSE [hi |-> hi1, mid |-> mid1 % Base, lo |-> lo1 % Base, e |-> e]

\* n / d for integers n >= d >= 1 (d below 2^13): long division, the
\* quotient's MantBits leading bits, then the rounding.
FloatDiv(n, d) ==
  LET ip   == n \div d
      c    == MantBits - 2 * LimbBits - BitLen(ip)
      t1   == (n % d) * Pow2(c)
      t2   == (t1 % d) * Base
      t3   == (t2 % d) * Base
      hi   == ip * Pow2(c) + t1 \div d
      mid  == t2 \div d
      lo   == t3 \div d
      rem  == t3 % d
      up   == 2 * rem > d \/ (2 * rem = d /\ lo % 2 = 1)
  IN  Rounded(hi, mid, lo, BitLen(ip) - MantBits, up)

\* dim * x for an integer 1 <= dim < 2^12 (converted exactly) and a float x.
FloatMulInt(dim, x) ==
  LET p0   == x.lo * dim
      p1   == x.mid * dim + p0 \div Base
      p2   == x.hi * dim + p1 \div Base
      m0   == p0 % Base
      m1   == p1 % Base
      k    == BitLen(p2) - (MantBits - 2 * LimbBits)
      cut  == Pow2(k)
      up0  == Base \div cut
      hi   == p2 \div cut
      mid  == m1 \div cut + (p2 % cut) * up0
      lo   == m0 \div cut + (m1 % cut) * up0
      drop == m0 % cut
      up   == k > 0 /\ (2 * drop > cut \/ (2 * drop = cut /\ lo % 2 = 1))
  IN  Rounded(hi, mid, lo, x.e + k, up)

\* int(x): truncation, for a float below 2^31.
FloatToInt(x) ==
  LET s == -x.e
  IN  IF s >= MantBits THEN 0
      ELSE IF s >= 2 * LimbBits THEN x.hi \div Pow2(s - 2 * LimbBits)
      ELSE x.hi * Pow2(2 * LimbBits - s) + x.mid \div Pow2(s - LimbBits)

(***************************************************************************)
(* Bounds of the model.                                                    *)
(***************************************************************************)
\* Most files a batch discovers.
MaxFiles == 2

\* The values of max_workers.
WorkerCounts == {1, 2}

\* Edge lengths of the source images of a single-file conversion.
Edges == {8, 16, 49, 256, 300, 1024}

(***************************************************************************)
(* Paths.  A path is <<directory, stem, suffix>>; a file name is           *)
(* <<stem, suffix>>.                                                       *)
(***************************************************************************)
NoPath == <<"", "", "">>

\* Path.with_suffix: the last suffix is replaced.
WithSuffix(p, suffix) == <<p[1], p[2], suffix>>

\* Path.name
Name(p) == <<p[2], p[3]>>

\* folder / name
Join(folder, name) == <<folder, name[1], name[2]>>

\* Path.parent
Parent(p) == p[1]

\* str.lower on the suffixes that occur.
Lower(suffix) ==
  CASE suffix = ".PNG" -> ".png"
    [] suffix = ".JPG" -> ".jpg"
    [] OTHER -> suffix

\* f".{target_format}"
FormatSuffix(f) == IF f = "icns" THEN ".icns" ELSE ".ico"

(***************************************************************************)
(* The environment: the files and directories the program may meet.        *)
(***************************************************************************)
\* A source file that cannot be decoded has these dimensions.
Corrupt == <<0, 0>>

\* The directories that exist when the program starts.
InitialDirs == {"in", "in/sub", "out"}

\* The values of --output: "out" exists, "new" does not exist yet, and
\* "blocked" is an existing regular file, so that
\* mkdir(parents=True, exist_ok=True) on it raises FileExistsError.
OutputArgs == {"none", "out", "new", "blocked"}

\* The values of --output given with a directory.
BatchOutputArgs == {"none", "new", "blocked"}

\* The colour modes of the source images: bilevel, greyscale, greyscale with
\* alpha, palette, RGB, RGBA and CMYK.
Modes == {"1", "L", "LA", "P", "RGB", "RGBA", "CMYK"}

\* A source file: its path, the size of its image, the image's mode and
\* whether the image's info has a "transparency" entry.
File(path, img, mode, transparency) ==
  [path |-> path, img |-> img, mode |-> mode, transparency |-> transparency]

\* The candidate files of a batch's input folder "in", each with its image.
Universe ==
  { File(<<"in", "a", ".png">>, <<1024, 1024>>, "RGBA", FALSE),
    File(<<"in", "b", ".JPG">>, Corrupt, "RGB", FALSE),
    File(<<"in/sub", "a", ".png">>, <<300, 200>>, "L", FALSE),
    File(<<"in", "notes", ".txt">>, Corrupt, "RGB", FALSE) }

\* The files given to a single-file conversion.
SingleFiles ==
  { File(<<"in", "icon", ".png">>, <<w, h>>, "RGBA", FALSE) : w \in Edges, h \in Edges }
  \cup { File(<<"in", "icon", ".png">>, <<1024, 1024>>, m, t) : m \in Modes, t \in BOOLEAN }
  \cup { File(<<"in", "icon", ".PNG">>, <<1024, 1024>>, "RGBA", FALSE),
         File(<<"in", "icon", ".png">>, Corrupt, "RGB", FALSE),
         File(<<"in", "icon", ".txt">>, Corrupt, "RGB", FALSE) }

\* The sequences without repetition of at most n elements of S.
Arrangements(S, n) ==
  { q \in UNION {[1..k -> S] : k \in 0..n} :
      \A i, k \in 1..Len(q) : i # k => q[i] # q[k] }

\* Every path an output may be written to.
OutPaths ==
  { <<d, st, sf>> : d \in {"in", "out", "new"},
                    st \in {"a", "b", "icon"}, sf \in {".icns", ".ico"} }

\* Where the program runs: sys.platform and whether iconutil is on PATH.
Platforms ==
  { [darwin |-> TRUE, iconutil |-> TRUE], [darwin |-> TRUE, iconutil |-> FALSE],
    [darwin |-> FALSE, iconutil |-> FALSE] }

(***************************************************************************)
(* State.                                                                  *)
(***************************************************************************)
VARIABLES
  args,         \* the parsed command line (main)
  platform,     \* the host
  tree,         \* the input: the files of the input folder, in glob order, or
                \* the one input file
  dirs,         \* the directories that exist
  fs,           \* the file at each output path
  job,          \* the convert call of each job: its position and locals
  mpc,          \* the position of the main thread
  image_files,  \* batch_convert: the discovered files
  pending,      \* batch_convert: the futures as_completed has yet to yield
  converted,    \* batch_convert: result paths of the jobs that returned
  failed,       \* batch_convert: (file name, error) of the jobs that raised
  preview,      \* what the dry run logged: (input name, output name) pairs
  warnings,     \* the warnings logged by the disk-space preflight
  exit_code     \* the exit status of the process, -1 while it runs

envVars == <<args, platform, tree>>

batchVars == <<image_files, pending, converted, failed, preview, warnings>>

vars == <<args, platform, tree, dirs, fs, job, mpc, image_files, pending,
          converted, failed, preview, warnings, exit_code>>

Jobs == 1..MaxFiles

NoFile == File(NoPath, Corrupt, "none", FALSE)

\* A convert call that has not been made.
IdleJob ==
  [ pc       |-> "idle",
    err      |-> "none",
    file     |-> NoFile,     \* input_path and the image stored there
    outarg   |-> NoPath,     \* the output_path argument, NoPath for None
    out      |-> NoPath,     \* output_path once determined
    img      |-> Corrupt,    \* size of the image bound to img
    upscaled |-> FALSE,      \* img is the result of _upscale_if_needed's resize
    src      |-> "none",     \* the handle of Image.open: none, open, closed
    prep     |-> "none",     \* prepared_img: none, live, closed
    mode     |-> "none",     \* the mode of prepared_img
    staging  |-> "none",     \* the temporary directory: none, live, gone
    entries  |-> {},         \* the files of icon.iconset: <<size, variant, edge>>
    idx      |-> 0,          \* position of the loop over ICNS_SIZES
    cache    |-> {},         \* the keys of size_cache
    resizes  |-> 0,          \* how often _create_iconset called img.resize
    launched |-> 0,          \* how often subprocess.run was called for iconutil
    packed   |-> {},         \* the files of icon.iconset when iconutil was run
    sizes    |-> <<>> ]      \* sizes_tuple of _convert_to_ico

AbsentFile == [st |-> "absent", by |-> 0, sizes |-> <<>>]

OldFile == [st |-> "old", by |-> 0, sizes |-> <<>>]

\* The file system before the program runs: when old, every output path in
\* an existing directory already holds a file.
InitialFs(old) ==
  [p \in OutPaths |-> IF old /\ Parent(p) \in InitialDirs THEN OldFile ELSE AbsentFile]

InitCommon ==
  /\ dirs = InitialDirs
  /\ job = [j \in Jobs |-> IdleJob]
  /\ mpc = "main"
  /\ image_files = <<>>
  /\ pending = {}
  /\ converted = <<>>
  /\ failed = <<>>
  /\ preview = <<>>
  /\ warnings = 0
  /\ exit_code = -1

\* main is given one existing file.
InitFile ==
  /\ args \in [ input : {"file"}, format : {"icns", "ico"}, output : OutputArgs,
                recursive : {FALSE}, workers : {1}, dry_run : {FALSE},
                auto_upscale : BOOLEAN, preserve_alpha : BOOLEAN ]
  /\ platform \in Platforms
  /\ args.format = "ico" => platform.iconutil
  /\ tree \in {<<f>> : f \in SingleFiles}
  /\ fs \in {InitialFs(old) : old \in BOOLEAN}

\* main is given the directory "in".
InitDir ==
  /\ args \in [ input : {"dir"}, format : {"icns", "ico"}, output : BatchOutputArgs,
                recursive : BOOLEAN, workers : WorkerCounts, dry_run : BOOLEAN,
                auto_upscale : BOOLEAN, preserve_alpha : BOOLEAN ]
  /\ platform \in Platforms
  /\ platform.darwin = platform.iconutil
  /\ args.format = "ico" => platform.iconutil
  /\ tree \in Arrangements(Universe, MaxFiles)
  /\ fs = InitialFs(FALSE)

\* main is given a path that is neither a file nor a directory.
InitNeither ==
  /\ args \in [ input : {"none"}, format : {"icns", "ico"}, output : {"none"},
                recursive : {FALSE}, workers : {1}, dry_run : {FALSE},
                auto_upscale : {FALSE}, preserve_alpha : {TRUE} ]
  /\ platform \in Platforms
  /\ tree = <<>>
  /\ fs = InitialFs(FALSE)

Init == InitCommon /\ (InitFile \/ InitDir \/ InitNeither)

(***************************************************************************)
(* IconConverter: the pure parts.                                          *)
(***************************************************************************)
\* min_size in convert: 1024 for ICNS, max(ICO_SIZES) for ICO.
MinSize(format) == IF format = "icns" THEN IcnsMinSize ELSE SeqMax(ICO_SIZES)

\* MinRequired without the relaxation for ICO.
MinRequiredNoRelax(format) == MinSize(format)

\* min_required in convert, when auto_upscale is off.
MinRequired(format) == IF format = "ico" THEN IcoMinRequired ELSE MinSize(format)

\* new_size in _upscale_if_needed: int(dim * scale) for both dimensions, with
\* scale the float min_size / min(img.size).
NewSize(size, min_size) ==
  LET scale == FloatDiv(min_size, Min(size[1], size[2]))
  IN  <<FloatToInt(FloatMulInt(size[1], scale)), FloatToInt(FloatMulInt(size[2], scale))>>

\* UpscaleIfNeeded without the resize.
UpscaleNever(size, min_size, auto_upscale) == size

\* _upscale_if_needed: the size of the image it returns.
UpscaleIfNeeded(size, min_size, auto_upscale) ==
  IF Min(size[1], size[2]) < min_size
  THEN IF ~auto_upscale THEN size ELSE NewSize(size, min_size)
  ELSE size

\* IcoSizesFor with a strict comparison.
IcoSizesStrict(size) == SelectSeq(ICO_SIZES, LAMBDA sz : sz < Min(size[1], size[2]))

\* sizes_tuple in _convert_to_ico, as edge lengths.
IcoSizesFor(size) == SelectSeq(ICO_SIZES, LAMBDA sz : sz <= Min(size[1], size[2]))

\* _prepare_image: the mode of the image it returns.  A palette image is
\* first converted to RGBA or RGB; then an image is converted to RGBA when
\* alpha is preserved and it is not RGBA, flattened onto white as RGB when
\* alpha is not preserved and it is RGBA, and returned as it is otherwise.
PrepareImage(mode, transparency, preserve_alpha) ==
  LET unpaletted == IF mode = "P" THEN (IF transparency THEN "RGBA" ELSE "RGB") ELSE mode
  IN  IF preserve_alpha /\ unpaletted # "RGBA" THEN "RGBA"
      ELSE IF ~preserve_alpha /\ unpaletted = "RGBA" THEN "RGB"
      ELSE unpaletted

\* _verify_iconutil passes.
IconutilAvailable(host) == host.darwin /\ host.iconutil

\* A job ends by raising.
Raise(r, kind) == [r EXCEPT !.pc = "failed", !.err = kind]

\* Leaving the with block of Image.open closes the handle.
CloseSource(r) == [r EXCEPT !.src = "closed"]

\* ExitTempDir without the removal.
ExitTempDirLeak(r) == r

\* Leaving the with block of tempfile.TemporaryDirectory removes the
\* directory and everything in it.
ExitTempDir(r) == [r EXCEPT !.staging = "gone", !.entries = {}]

\* The end of convert after the back end returned: prepared_img.close() and
\* return output_path.
ReturnOutput(r) == [r EXCEPT !.prep = "closed", !.pc = "done"]

(***************************************************************************)
(* IconConverter.convert, one action per stage of job j.                   *)
(***************************************************************************)
\* output_path once determined.
OutputPath(r, format) ==
  IF r.outarg = NoPath THEN WithSuffix(r.file.path, FormatSuffix(format))
  ELSE WithSuffix(r.outarg, FormatSuffix(format))

\* The suffix validation and the output path.  The mkdir of the output's
\* parent raises when that is a regular file.
CheckInput(r, format) ==
  IF Lower(r.file.path[3]) \notin SUPPORTED_FORMATS THEN Raise(r, "unsupported")
  ELSE IF r.outarg # NoPath /\ Parent(OutputPath(r, format)) = "blocked"
  THEN Raise([r EXCEPT !.out = OutputPath(r, format)], "mkdir")
  ELSE [r EXCEPT !.out = OutputPath(r, format), !.pc = "open"]

\* Image.open(input_path)
OpenImage(r) ==
  IF r.file.img = Corrupt THEN Raise(r, "decode")
  ELSE [r EXCEPT !.img = r.file.img, !.src = "open", !.pc = "size"]

\* The size validation: upscale, accept or raise.
SizeCheck(r, format, auto_upscale) ==
  LET min_size == MinSize(format)
      small    == Min(r.img[1], r.img[2]) < min_size
  IN  IF small /\ auto_upscale
      THEN [r EXCEPT !.img = UpscaleIfNeeded(r.img, min_size, auto_upscale),
                     !.upscaled = TRUE, !.pc = "prepare"]
      ELSE IF small /\ Min(r.img[1], r.img[2]) < MinRequired(format)
      THEN Raise(CloseSource(r), "size")
      ELSE [r EXCEPT !.pc = "prepare"]

\* convert up to the size validation.
Validated(r, format, auto_upscale) ==
  LET checked == CheckInput(r, format)
      opened  == OpenImage(checked)
  IN  IF checked.pc = "failed" THEN checked
      ELSE IF opened.pc = "failed" THEN opened
      ELSE SizeCheck(opened, format, auto_upscale)

\* The Validating stage of job j.
Validate(j) ==
  LET r == Validated(job[j], args.format, args.auto_upscale)
  IN  /\ job[j].pc = "start"
      /\ job' = [job EXCEPT ![j] = r]
      /\ dirs' = IF job[j].outarg # NoPath /\ r.err \notin {"unsupported", "mkdir"}
                 THEN dirs \cup {Parent(r.out)} ELSE dirs
      /\ UNCHANGED <<envVars, fs, mpc, batchVars, exit_code>>

\* _prepare_image and the copy, then the end of the with block.  Decoding is
\* lazy: a damaged file may fail only here.
Prepare(j) ==
  LET r == job[j]
  IN  /\ r.pc = "prepare"
      /\ \E ok \in BOOLEAN :
           job' = [job EXCEPT ![j] =
                     IF ok THEN [CloseSource(r) EXCEPT
                                  !.prep = "live", !.pc = "assemble",
                                  !.mode = PrepareImage(r.file.mode, r.file.transparency,
                                                        args.preserve_alpha)]
                     ELSE Raise(CloseSource(r), "decode")]
      /\ UNCHANGED <<envVars, dirs, fs, mpc, batchVars, exit_code>>

(***************************************************************************)
(* The back ends.                                                          *)
(***************************************************************************)
\* A file written completely by job j.
FullFile(j, sizes) == [st |-> "full", by |-> j, sizes |-> sizes]

\* A file job j started to write and did not finish.
PartialFile(j) == [st |-> "partial", by |-> j, sizes |-> <<>>]

\* What a writer that fails may leave at a path: the file as it was (it
\* failed before opening it, or removed the file it had created) or a
\* truncated file.  A file that existed before is not removed.
AfterFailedWrite(j, before) == {before, PartialFile(j)}

\* EnterIcns without _verify_iconutil.
EnterIcnsUnverified(j) ==
  LET r == job[j]
  IN  /\ r.pc = "assemble"
      /\ args.format = "icns"
      /\ job' = [job EXCEPT ![j] = [r EXCEPT !.staging = "live", !.pc = "iconset"]]
      /\ UNCHANGED <<envVars, dirs, fs, mpc, batchVars, exit_code>>

\* _convert_to_icns up to _create_iconset: the platform check, then the
\* temporary directory of the with block.
EnterIcns(j) ==
  LET r == job[j]
  IN  /\ r.pc = "assemble"
      /\ args.format = "icns"
      /\ job' = [job EXCEPT ![j] =
                   IF IconutilAvailable(platform)
                   THEN [r EXCEPT !.staging = "live", !.pc = "iconset"]
                   ELSE Raise(r, "platform")]
      /\ UNCHANGED <<envVars, dirs, fs, mpc, batchVars, exit_code>>

\* IconsetIteration with an @2x entry for every size.
IconsetIterationAll(r, i) ==
  LET size     == ICNS_SIZES[i]
      baseNew  == size \notin r.cache
      cache1   == r.cache \cup {size}
      base     == <<size, "base", size>>
      double   == TRUE
      dsize    == size * 2
      dblNew   == double /\ dsize \notin cache1
      cache2   == IF double THEN cache1 \cup {dsize} ELSE cache1
      written  == IF double THEN {base, <<size, "2x", dsize>>} ELSE {base}
      count    == (IF baseNew THEN 1 ELSE 0) + (IF dblNew THEN 1 ELSE 0)
  IN  [r EXCEPT !.cache = cache2, !.entries = r.entries \cup written,
                !.resizes = r.resizes + count, !.idx = i]

\* IconsetIteration without size_cache: every entry is resized anew.
IconsetIterationNoCache(r, i) ==
  LET size     == ICNS_SIZES[i]
      baseNew  == TRUE
      cache1   == r.cache \cup {size}
      base     == <<size, "base", size>>
      double   == size < DoubleBelow
      dsize    == size * 2
      dblNew   == double
      cache2   == IF double THEN cache1 \cup {dsize} ELSE cache1
      written  == IF double THEN {base, <<size, "2x", dsize>>} ELSE {base}
      count    == (IF baseNew THEN 1 ELSE 0) + (IF dblNew THEN 1 ELSE 0)
  IN  [r EXCEPT !.cache = cache2, !.entries = r.entries \cup written,
                !.resizes = r.resizes + count, !.idx = i]

\* One iteration of the loop of _create_iconset, for ICNS_SIZES[i].
IconsetIteration(r, i) ==
  LET size     == ICNS_SIZES[i]
      baseNew  == size \notin r.cache
      cache1   == r.cache \cup {size}
      base     == <<size, "base", size>>
      double   == size < DoubleBelow
      dsize    == size * 2
      dblNew   == double /\ dsize \notin cache1
      cache2   == IF double THEN cache1 \cup {dsize} ELSE cache1
      written  == IF double THEN {base, <<size, "2x", dsize>>} ELSE {base}
      count    == (IF baseNew THEN 1 ELSE 0) + (IF dblNew THEN 1 ELSE 0)
  IN  [r EXCEPT !.cache = cache2, !.entries = r.entries \cup written,
                !.resizes = r.resizes + count, !.idx = i]

\* The first n iterations of the loop, from the empty directory and cache.
RECURSIVE IconsetAfter(_, _)
IconsetAfter(r, n) ==
  IF n = 0 THEN [r EXCEPT !.entries = {}, !.cache = {}, !.resizes = 0, !.idx = 0]
  ELSE IconsetIteration(IconsetAfter(r, n - 1), n)

\* CreateIconset with the exception of a resize or a save swallowed: the
\* call goes on to iconutil with the entries written so far.
CreateIconsetSwallow(j) ==
  LET r == job[j]
  IN  /\ r.pc = "iconset"
      /\ \E n \in 0..Len(ICNS_SIZES) :
           job' = [job EXCEPT ![j] = [IconsetAfter(r, n) EXCEPT !.pc = "iconutil"]]
      /\ UNCHANGED <<envVars, dirs, fs, mpc, batchVars, exit_code>>

\* _create_iconset: the loop runs to its end, or a resize or a save raises in
\* some iteration and the with block is left.
CreateIconset(j) ==
  LET r == job[j]
  IN  /\ r.pc = "iconset"
      /\ \/ job' = [job EXCEPT ![j] =
                      [IconsetAfter(r, Len(ICNS_SIZES)) EXCEPT !.pc = "iconutil"]]
         \/ \E n \in 0..(Len(ICNS_SIZES) - 1) :
              job' = [job EXCEPT ![j] = Raise(ExitTempDir(IconsetAfter(r, n)), "io")]
      /\ UNCHANGED <<envVars, dirs, fs, mpc, batchVars, exit_code>>

\* subprocess.run(iconutil ...): it exits 0 and the container is written, it
\* exits non-zero, or it cannot be launched.  Each way the with block is left.
RunIconutil(j) ==
  LET r == [job[j] EXCEPT !.launched = @ + 1, !.packed = job[j].entries]
  IN  /\ r.pc = "iconutil"
      /\ \/ /\ job' = [job EXCEPT ![j] = ReturnOutput(ExitTempDir(r))]
            /\ fs' = [fs EXCEPT ![r.out] = FullFile(j, <<>>)]
         \/ /\ job' = [job EXCEPT ![j] = Raise(ExitTempDir(r), "tool")]
            /\ \E left \in AfterFailedWrite(j, fs[r.out]) :
                 fs' = [fs EXCEPT ![r.out] = left]
         \/ /\ job' = [job EXCEPT ![j] = Raise(ExitTempDir(r), "exec")]
            /\ fs' = fs
      /\ UNCHANGED <<envVars, dirs, mpc, batchVars, exit_code>>

\* _convert_to_ico: the eligible sizes, then the save.
ConvertToIco(j) ==
  LET r           == job[j]
      sizes_tuple == IcoSizesFor(r.img)
  IN  /\ r.pc = "assemble"
      /\ args.format = "ico"
      /\ IF sizes_tuple = <<>>
         THEN /\ job' = [job EXCEPT ![j] = Raise(r, "nosizes")]
              /\ fs' = fs
         ELSE \/ /\ job' = [job EXCEPT ![j] = ReturnOutput([r EXCEPT !.sizes = sizes_tuple])]
                 /\ fs' = [fs EXCEPT ![r.out] = FullFile(j, sizes_tuple)]
              \/ /\ job' = [job EXCEPT ![j] = Raise([r EXCEPT !.sizes = sizes_tuple], "io")]
                 /\ \E left \in AfterFailedWrite(j, fs[r.out]) :
                      fs' = [fs EXCEPT ![r.out] = left]
      /\ UNCHANGED <<envVars, dirs, mpc, batchVars, exit_code>>

(***************************************************************************)
(* IconConverter.batch_convert.                                            *)
(***************************************************************************)
\* output_folder once determined.
OutputFolder == IF args.output = "none" THEN "in" ELSE args.output

\* glob(pattern) filtered by is_file and the suffix: whether file f of the
\* input folder "in" is discovered.
Discovered(f, recursive) ==
  /\ Lower(f.path[3]) \in SUPPORTED_FORMATS
  /\ (recursive \/ Parent(f.path) = "in")

\* The output_path argument batch_convert passes to convert for a file.
BatchOutputPath(folder, path, format) ==
  Join(folder, Name(WithSuffix(path, FormatSuffix(format))))

\* DryRunName with the suffix of the input kept.
DryRunNameOfInput(path, format) == Name(path)

\* The name the dry run prints for a file.
DryRunName(path, format) == Name(WithSuffix(path, FormatSuffix(format)))

\* The exit status when main's except clause catches an exception.
ExitOnException == 1

\* The exit status when main runs to its end.
ExitAtEnd == 0

\* The output folder and the discovery.  An output folder that cannot be
\* created raises, out of batch_convert and into main's except clause.
BatchSetup ==
  /\ mpc = "batch"
  /\ IF args.output = "blocked"
     THEN /\ mpc' = "exit"
          /\ exit_code' = ExitOnException
          /\ UNCHANGED <<dirs, image_files>>
     ELSE /\ dirs' = IF args.output = "none" THEN dirs ELSE dirs \cup {args.output}
          /\ image_files' = SelectSeq(tree, LAMBDA f : Discovered(f, args.recursive))
          /\ mpc' = IF image_files' = <<>> THEN "returned" ELSE "discovered"
          /\ exit_code' = exit_code
  /\ UNCHANGED <<envVars, fs, job, pending, converted, failed, preview, warnings>>

\* The dry run: the names are logged and the empty list is returned.
DryRun ==
  /\ mpc = "discovered"
  /\ args.dry_run
  /\ preview' = [i \in 1..Len(image_files) |->
                   <<Name(image_files[i].path), DryRunName(image_files[i].path, args.format)>>]
  /\ mpc' = "returned"
  /\ UNCHANGED <<envVars, dirs, fs, job, image_files, pending, converted, failed,
                 warnings, exit_code>>

\* Preflight with an OSError of _check_disk_space that is not caught: it
\* leaves batch_convert and reaches main's except clause.
PreflightFatal ==
  /\ mpc = "discovered"
  /\ ~args.dry_run
  /\ \E enough \in BOOLEAN :
       IF enough
       THEN /\ mpc' = "submit"
            /\ UNCHANGED <<warnings, exit_code>>
       ELSE /\ warnings' = warnings + 1
            /\ mpc' = "exit"
            /\ exit_code' = ExitOnException
  /\ UNCHANGED <<envVars, dirs, fs, job, image_files, pending, converted, failed,
                 preview>>

\* The disk-space check: there is enough space, or _check_disk_space raises
\* OSError (too little space, or stat or disk_usage failed) and the message
\* is logged as a warning.
Preflight ==
  /\ mpc = "discovered"
  /\ ~args.dry_run
  /\ \E enough \in BOOLEAN : warnings' = IF enough THEN warnings ELSE warnings + 1
  /\ mpc' = "submit"
  /\ UNCHANGED <<envVars, dirs, fs, job, image_files, pending, converted, failed,
                 preview, exit_code>>

\* The dictionary of futures: one convert call is submitted per file.
SubmitAll ==
  /\ mpc = "submit"
  /\ job' = [j \in Jobs |->
               IF j <= Len(image_files)
               THEN [IdleJob EXCEPT !.pc = "queued", !.file = image_files[j],
                                    !.outarg = BatchOutputPath(OutputFolder,
                                                 image_files[j].path, args.format)]
               ELSE job[j]]
  /\ pending' = 1..Len(image_files)
  /\ mpc' = "collect"
  /\ UNCHANGED <<envVars, dirs, fs, image_files, converted, failed, preview,
                 warnings, exit_code>>

\* The jobs a worker thread is running.
Running == {j \in Jobs : job[j].pc \notin {"idle", "queued", "done", "failed"}}

\* A free worker of the pool takes the oldest queued job.
WorkerStart(j) ==
  /\ mpc = "collect"
  /\ job[j].pc = "queued"
  /\ \A i \in 1..(j - 1) : job[i].pc # "queued"
  /\ Cardinality(Running) < args.workers
  /\ job' = [job EXCEPT ![j].pc = "start"]
  /\ UNCHANGED <<envVars, dirs, fs, mpc, batchVars, exit_code>>

\* One iteration of the loop over as_completed: the outcome of a finished
\* future is recorded.
Collect(j) ==
  /\ mpc = "collect"
  /\ j \in pending
  /\ job[j].pc \in {"done", "failed"}
  /\ pending' = pending \ {j}
  /\ IF job[j].pc = "done"
     THEN /\ converted' = Append(converted, job[j].out)
          /\ failed' = failed
     ELSE /\ failed' = Append(failed, <<Name(job[j].file.path), job[j].err>>)
          /\ converted' = converted
  /\ UNCHANGED <<envVars, dirs, fs, job, mpc, image_files, preview, warnings, exit_code>>

\* BatchReturn without waiting for the futures still pending.
BatchReturnEarly ==
  /\ mpc = "collect"
  /\ mpc' = "returned"
  /\ UNCHANGED <<envVars, dirs, fs, job, batchVars, exit_code>>

\* as_completed is exhausted: the pool is shut down, the summary is logged and
\* converted is returned.
BatchReturn ==
  /\ mpc = "collect"
  /\ pending = {}
  /\ mpc' = "returned"
  /\ UNCHANGED <<envVars, dirs, fs, job, batchVars, exit_code>>

(***************************************************************************)
(* main                                                                    *)
(***************************************************************************)
\* The output_path argument main passes to convert for args.output.
SingleOutputArg(output) == IF output = "none" THEN NoPath ELSE <<output, "icon", "">>

\* main dispatches on the input path.
MainStart ==
  /\ mpc = "main"
  /\ CASE args.input = "file" ->
            /\ job' = [job EXCEPT ![1] =
                         [IdleJob EXCEPT !.pc = "start", !.file = tree[1],
                                         !.outarg = SingleOutputArg(args.output)]]
            /\ mpc' = "convert"
            /\ exit_code' = exit_code
       [] args.input = "dir" ->
            /\ mpc' = "batch"
            /\ UNCHANGED <<job, exit_code>>
       [] OTHER ->
            /\ mpc' = "exit"
            /\ exit_code' = 1
            /\ job' = job
  /\ UNCHANGED <<envVars, dirs, fs, batchVars>>

\* convert returned to main, or raised into its except clause.
MainAfterConvert ==
  /\ mpc = "convert"
  /\ job[1].pc \in {"done", "failed"}
  /\ mpc' = "exit"
  /\ exit_code' = IF job[1].pc = "done" THEN ExitAtEnd ELSE ExitOnException
  /\ UNCHANGED <<envVars, dirs, fs, job, batchVars>>

\* MainAfterBatch with a failure status when a job failed.
MainAfterBatchStrict ==
  /\ mpc = "returned"
  /\ mpc' = "exit"
  /\ exit_code' = IF failed = <<>> THEN ExitAtEnd ELSE ExitOnException
  /\ UNCHANGED <<envVars, dirs, fs, job, batchVars>>

\* batch_convert returned to main.
MainAfterBatch ==
  /\ mpc = "returned"
  /\ mpc' = "exit"
  /\ exit_code' = ExitAtEnd
  /\ UNCHANGED <<envVars, dirs, fs, job, batchVars>>

(***************************************************************************)
(* The program.                                                            *)
(***************************************************************************)
ConvertStep(j) ==
  \/ Validate(j)
  \/ Prepare(j)
  \/ EnterIcns(j)
  \/ CreateIconset(j)
  \/ RunIconutil(j)
  \/ ConvertToIco(j)

Next ==
  \/ MainStart
  \/ MainAfterConvert
  \/ BatchSetup
  \/ DryRun
  \/ Preflight
  \/ SubmitAll
  \/ MainAfterBatch
  \/ BatchReturn
  \/ \E j \in Jobs : WorkerStart(j) \/ Collect(j) \/ ConvertStep(j)

Spec == Init /\ [][Next]_vars

(***************************************************************************)
(* Vocabulary of the properties.                                           *)
(***************************************************************************)
\* The convert calls that were made or submitted.
Called == {j \in Jobs : job[j].pc # "idle"}

Ended(j) == job[j].pc \in {"done", "failed"}

\* The smaller edge of the source image of job j.
SourceEdge(j) == Min(job[j].file.img[1], job[j].file.img[2])

\* Job j got as far as the size validation: its suffix is supported, the
\* parent of its output could be created and its source could be opened.
ReachedSizeCheck(j) ==
  /\ job[j].pc \notin {"idle", "queued", "start"}
  /\ Lower(job[j].file.path[3]) \in SUPPORTED_FORMATS
  /\ job[j].err # "mkdir"
  /\ job[j].file.img # Corrupt

\* Job j wrote nothing: no output path holds a file of its making.
WroteNothing(j) == \A p \in OutPaths : fs[p].by # j

\* Job j did not get to preparing or rendering.
NeverPrepared(j) ==
  /\ job[j].prep = "none"
  /\ job[j].staging = "none"
  /\ job[j].resizes = 0
  /\ job[j].sizes = <<>>

\* How often x occurs in the sequence q.
Occurrences(q, x) == Cardinality({i \in 1..Len(q) : q[i] = x})

\* The batch submitted its jobs and batch_convert returned.
BatchReturned ==
  /\ args.input = "dir"
  /\ ~args.dry_run
  /\ image_files # <<>>
  /\ mpc \in {"returned", "exit"}

Submitted == 1..Len(image_files)

(***************************************************************************)
(* C1.  As claimed: a source with a supported suffix whose smaller edge is *)
(* below the format's minimum source edge (1024 for ICNS, 256 for ICO),    *)
(* converted with auto_upscale off, fails with the size error before it is *)
(* prepared or rendered, and no output is written.                         *)
(***************************************************************************)
C1_AsClaimed ==
  \A j \in Jobs :
    (ReachedSizeCheck(j) /\ ~args.auto_upscale
       /\ SourceEdge(j) < (IF args.format = "icns" THEN 1024 ELSE 256))
    => /\ job[j].pc = "failed"
       /\ job[j].err = "size"
       /\ NeverPrepared(j)
       /\ WroteNothing(j)

(***************************************************************************)
(* C1, amended.  The minimum source edge of ICO without upscaling is 16,   *)
(* not 256: a job that gets to the size validation fails with the size     *)
(* error exactly when auto_upscale is off and the smaller source edge is   *)
(* below 1024 (ICNS) or 16 (ICO); it then fails before the image is        *)
(* prepared or rendered and writes no output.                              *)
(***************************************************************************)
C1_SizeConstraint ==
  \A j \in Jobs :
    ReachedSizeCheck(j)
    => LET tooSmall == ~args.auto_upscale
                       /\ SourceEdge(j) < (IF args.format = "icns" THEN 1024 ELSE 16)
       IN  /\ tooSmall => job[j].pc = "failed"
           /\ job[j].err = "size" <=> tooSmall
           /\ job[j].err = "size" => NeverPrepared(j) /\ WroteNothing(j)

C1_Witness ==
  \E j \in Jobs :
    /\ args.format = "ico"
    /\ job[j].err = "size"
    /\ job[j].file.img = <<8, 16>>
    /\ fs[job[j].out].st = "old"

C3_DryRunChangesNothing ==
  (args.input = "dir" /\ args.dry_run /\ image_files # <<>> /\ mpc \in {"returned", "exit"}
     /\ args.output # "blocked")
  => /\ converted = <<>>
     /\ \A j \in Jobs : job[j].pc = "idle"
     /\ fs = InitialFs(FALSE)
     /\ dirs = InitialDirs

(***************************************************************************)
(* C4.  Batch isolation: no job's failure leaves batch_convert as an       *)
(* exception, and when exactly one job failed the batch reports N-1        *)
(* successes and one failure and the N-1 successful outputs are written.   *)
(***************************************************************************)
C4_BatchIsolation ==
  BatchReturned
  => /\ mpc = "exit" => exit_code = 0
     /\ Cardinality({j \in Submitted : job[j].pc = "failed"}) = 1
        => /\ Len(converted) = Len(image_files) - 1
           /\ Len(failed) = 1
           /\ \A j \in Submitted :
                job[j].pc = "done" => fs[job[j].out].st = "full"

(***************************************************************************)
(* C5.  When a batch returns every submitted job has ended and was         *)
(* recorded exactly once: a job that returned adds its path once to        *)
(* converted, a job that raised adds its name and error once to failed,    *)
(* and the two lists together have one entry per discovered file.          *)
(***************************************************************************)
C5_EveryOutcomeOnce ==
  BatchReturned
  => /\ pending = {}
     /\ \A j \in Submitted : Ended(j)
     /\ Len(converted) + Len(failed) = Len(image_files)
     /\ \A j \in Submitted :
          /\ job[j].pc = "done" =>
               Occurrences(converted, job[j].out)
                 = Cardinality({k \in Submitted : job[k].pc = "done" /\ job[k].out = job[j].out})
          /\ job[j].pc = "failed" =>
               LET entry(k) == <<Name(job[k].file.path), job[k].err>>
               IN  Occurrences(failed, entry(j))
                     = Cardinality({k \in Submitted : job[k].pc = "failed" /\ entry(k) = entry(j)})

C5_Witness ==
  /\ BatchReturned
  /\ Len(converted) = 1
  /\ Len(failed) = 1
  /\ job[1].pc = "failed"

(***************************************************************************)
(* C6.  A convert call is atomic for its caller: a call that fails leaves  *)
(* no new and no partly written file at its output path; a file of the     *)
(* call's making exists only if the call returned, and is then complete.   *)
(***************************************************************************)
C6_AtomicOutput ==
  \A j \in Jobs : \A p \in OutPaths :
    fs[p].by = j => job[j].pc = "done" /\ fs[p].st = "full"

(***************************************************************************)
(* C7.  The temporary directory of an ICNS conversion exists only while    *)
(* the call is inside the with block; once the call has returned or        *)
(* raised, on whichever path, the directory and its entries are gone.      *)
(***************************************************************************)
C7_StagingRemoved ==
  \A j \in Jobs :
    /\ job[j].staging = "live" => job[j].pc \in {"iconset", "iconutil"}
    /\ Ended(j) => job[j].staging \in {"none", "gone"} /\ job[j].entries = {}

C7_Witness ==
  \E j, k \in Jobs :
    /\ job[j].err = "tool"
    /\ job[j].staging = "gone"
    /\ job[k].pc = "done"
    /\ job[k].staging = "gone"

(***************************************************************************)
(* C8.  Any two jobs of one batch are given different output paths.        *)
(***************************************************************************)
C8_DistinctOutputs ==
  \A j, k \in Called :
    (j # k /\ job[j].file.path # job[k].file.path) => job[j].outarg # job[k].outarg

(***************************************************************************)
(* C9.  As claimed: main exits 0 for every directory input, 0 after a      *)
(* single-file conversion that succeeds, and non-zero after one that fails *)
(* or for an input that is neither a file nor a directory.                 *)
(***************************************************************************)
C9_AsClaimed ==
  mpc = "exit"
  => /\ args.input = "dir" => exit_code = 0
     /\ (args.input = "file" /\ job[1].pc = "done") => exit_code = 0
     /\ (args.input = "file" /\ job[1].pc = "failed") => exit_code # 0
     /\ args.input = "none" => exit_code # 0

(***************************************************************************)
(* C9, amended.  main exits 0 for a directory input whenever batch_convert *)
(* returns, whatever the outcomes of the jobs, and 0 after a single-file   *)
(* conversion that succeeds; it exits 1 after a single-file conversion     *)
(* that fails, for an input that is neither a file nor a directory, and    *)
(* for a directory input whose output folder cannot be created, because    *)
(* batch_convert then raises.                                              *)
(***************************************************************************)
C9_ExitCodes ==
  /\ mpc # "exit" => exit_code = -1
  /\ mpc = "exit"
     => exit_code = IF \/ args.input = "file" /\ job[1].pc = "done"
                       \/ args.input = "dir" /\ args.output # "blocked"
                    THEN 0 ELSE 1

C9_Witness ==
  /\ mpc = "exit"
  /\ args.input = "dir"
  /\ Len(image_files) = 2
  /\ Len(failed) = 2
  /\ exit_code = 0

(***************************************************************************)
(* C10.  With auto_upscale on, a source below the format's minimum never   *)
(* fails the size check, and the image handed on has both edges scaled by  *)
(* minimum / smaller edge, so that its smaller edge is the minimum; every  *)
(* entry rendered from it has exactly the requested size.                  *)
(***************************************************************************)
C10_UpscaledToMinimum ==
  \A j \in Jobs :
    job[j].upscaled
    => LET src     == job[j].file.img
           minimum == IF args.format = "icns" THEN 1024 ELSE 256
       IN  /\ job[j].err # "size"
           /\ Min(job[j].img[1], job[j].img[2]) = minimum
           /\ \A i \in 1..2 : job[j].img[i] = (src[i] * minimum) \div SourceEdge(j)
           /\ \A e \in job[j].entries : e[3] = IF e[2] = "base" THEN e[1] ELSE 2 * e[1]
           /\ (args.format = "ico" /\ job[j].pc = "done") => job[j].sizes = ICO_SIZES

(***************************************************************************)
(* C11.  The disk-space preflight is never fatal: once it has logged its   *)
(* warning (too little free space, or an OS error of the check itself) the *)
(* batch goes on, submits exactly one convert call for every discovered    *)
(* file, in order, and no exception reaches main.                          *)
(***************************************************************************)
C11_PreflightNeverFatal ==
  (args.input = "dir" /\ warnings > 0)
  => /\ image_files # <<>>
     /\ mpc \in {"submit", "collect", "returned", "exit"}
     /\ mpc = "exit" => exit_code = 0
     /\ mpc # "submit"
        => /\ Called = Submitted
           /\ \A i \in Submitted :
                /\ job[i].file = image_files[i]
                /\ job[i].outarg # NoPath

C11_Witness ==
  /\ warnings > 0
  /\ mpc = "returned"
  /\ Len(image_files) = 2
  /\ Len(converted) = 2

(***************************************************************************)
(* C12.  Whatever the colour mode of the source, the image _prepare_image  *)
(* returns is RGBA when preserve_alpha is true and RGB when it is false.   *)
(***************************************************************************)
C12_CanonicalMode ==
  \A j \in Jobs :
    job[j].prep # "none"
    => job[j].mode = IF args.preserve_alpha THEN "RGBA" ELSE "RGB"

(***************************************************************************)
(* C13.  When a batch has returned, the identifiers recorded with the      *)
(* outcomes of two different discovered files differ: two failures are     *)
(* recorded under different input names, two successes under different     *)
(* output paths, so that every entry leads back to one input.              *)
(***************************************************************************)
C13_OutcomesTraceable ==
  BatchReturned
  => \A j, k \in Submitted :
       (j # k /\ job[j].file.path # job[k].file.path)
       => /\ (job[j].pc = "failed" /\ job[k].pc = "failed")
             => Name(job[j].file.path) # Name(job[k].file.path)
          /\ (job[j].pc = "done" /\ job[k].pc = "done")
             => job[j].out # job[k].out

(***************************************************************************)
(* C14.  When a convert call has returned or raised, at whatever stage,    *)
(* the handle of the source file is closed and the prepared copy has been  *)
(* closed: nothing the call opened or created is still live.               *)
(***************************************************************************)
C14_ResourcesReleased ==
  \A j \in Jobs :
    Ended(j) => job[j].src # "open" /\ job[j].prep # "live"

\* The entries a complete icon.iconset has.
RequiredEntries ==
  {<<sz, "base", sz>> : sz \in Range(ICNS_SIZES)}
  \cup {<<sz, "2x", 2 * sz>> : sz \in {z \in Range(ICNS_SIZES) : z < DoubleBelow}}

(***************************************************************************)
(* C15.  iconutil is run at most once per ICNS conversion and only on the  *)
(* complete set of entries; a conversion in which a resize or a save of    *)
(* _create_iconset failed has ended as a failure, never ran iconutil and   *)
(* wrote no output.                                                        *)
(***************************************************************************)
C15_ToolAfterCompleteSet ==
  \A j \in Jobs :
    /\ job[j].launched <= 1
    /\ job[j].pc = "iconutil" => job[j].entries = RequiredEntries
    /\ job[j].launched > 0 => job[j].packed = RequiredEntries
    /\ (args.format = "icns" /\ job[j].err = "io")
       => job[j].pc = "failed" /\ job[j].launched = 0 /\ WroteNothing(j)
    /\ (args.format = "icns" /\ ~WroteNothing(j)) => job[j].launched = 1

C15_Witness ==
  \E j, k \in Jobs :
    /\ args.format = "icns"
    /\ job[j].err = "io"
    /\ job[j].resizes > 0
    /\ job[j].launched = 0
    /\ job[k].pc = "done"
    /\ job[k].packed = RequiredEntries

(***************************************************************************)
(* C16.  When _create_iconset has run to its end, icon.iconset holds       *)
(* exactly icon_SxS.png with an S x S image for S = 16, 32, 64, 128, 256,  *)
(* 512, 1024 and icon_SxS@2x.png with a 2S x 2S image for S = 16, 32, 64,  *)
(* 128, 256: no @2x entry for 512 or 1024 and no other entry.              *)
(***************************************************************************)
C16_IconsetContents ==
  \A j \in Jobs :
    job[j].pc = "iconutil"
    => job[j].entries =
         { <<16, "base", 16>>, <<32, "base", 32>>, <<64, "base", 64>>,
           <<128, "base", 128>>, <<256, "base", 256>>, <<512, "base", 512>>,
           <<1024, "base", 1024>>,
           <<16, "2x", 32>>, <<32, "2x", 64>>, <<64, "2x", 128>>,
           <<128, "2x", 256>>, <<256, "2x", 512>> }

C16_Witness ==
  \E j \in Jobs :
    /\ job[j].pc = "iconutil"
    /\ Cardinality(job[j].entries) = 12
    /\ job[j].staging = "live"

(***************************************************************************)
(* C17.  In one ICNS conversion every edge length is resized once: at any  *)
(* point of _create_iconset the number of resize calls equals the number   *)
(* of different edge lengths of the entries written, which are the keys of *)
(* the cache; a complete run resizes once per size of ICNS_SIZES, and does *)
(* so in every job, whatever the other jobs of the batch cached.           *)
(***************************************************************************)
C17_ResizedOnce ==
  \A j \in Jobs :
    /\ job[j].entries # {}
       => /\ job[j].resizes = Cardinality({e[3] : e \in job[j].entries})
          /\ job[j].cache = {e[3] : e \in job[j].entries}
    /\ job[j].launched > 0 => job[j].resizes = Len(ICNS_SIZES)
    /\ job[j].resizes <= Len(ICNS_SIZES)

C17_Witness ==
  /\ \A j \in Jobs : job[j].launched = 1 /\ job[j].resizes = 7
  /\ job[1].file # job[2].file

(***************************************************************************)
(* C18.  On a host where iconutil is not available (not macOS, or iconutil *)
(* not on PATH) an ICNS conversion never creates a temporary directory,    *)
(* never resizes for an entry, never runs the tool and writes nothing; a   *)
(* call that got as far as the back end ends with the platform error, and  *)
(* the platform error occurs on no other host.                             *)
(***************************************************************************)
C18_PlatformCheckedFirst ==
  \A j \in Jobs :
    /\ (args.format = "icns" /\ ~(platform.darwin /\ platform.iconutil))
       => /\ job[j].staging = "none"
          /\ job[j].entries = {}
          /\ job[j].resizes = 0
          /\ job[j].launched = 0
          /\ WroteNothing(j)
          /\ job[j].pc \notin {"iconset", "iconutil", "done"}
          /\ (Ended(j) /\ job[j].prep # "none") => job[j].err = "platform"
    /\ job[j].err = "platform"
       => args.format = "icns" /\ ~(platform.darwin /\ platform.iconutil)

C18_Witness ==
  \E j \in Jobs :
    /\ job[j].err = "platform"
    /\ platform.darwin
    /\ ~platform.iconutil
    /\ job[j].prep = "live"

(***************************************************************************)
(* C19.  No convert call ends with the ICO back end's "no eligible sizes"  *)
(* error: with or without auto_upscale, an ICO conversion that got past    *)
(* the size validation holds an image whose smaller edge is at least 16,   *)
(* so that sizes_tuple has at least the entry 16.  With auto_upscale that  *)
(* is so for every smaller source edge from 1 to 255 (a sweep evaluated    *)
(* once, where the conversion of the smallest source starts).              *)
(***************************************************************************)
C19_IcoSizesNeverEmpty ==
  \A j \in Jobs :
    /\ job[j].err # "nosizes"
    /\ (args.format = "ico" /\ job[j].pc \in {"prepare", "assemble", "done"})
       => Min(job[j].img[1], job[j].img[2]) >= 16
    /\ (args.format = "ico" /\ (job[j].pc = "done" \/ job[j].err = "io"))
       => Len(job[j].sizes) >= 1 /\ job[j].sizes[1] = 16
    /\ (args.input = "file" /\ job[j].pc = "start" /\ args.format = "ico"
          /\ args.auto_upscale /\ job[j].file.img = <<8, 8>>)
       => \A m \in 1..(MinSize("ico") - 1) :
            LET scaled == UpscaleIfNeeded(<<m, 2 * m>>, MinSize("ico"), TRUE)
            IN  Min(scaled[1], scaled[2]) >= 16 /\ IcoSizesFor(scaled) # <<>>

C19_Witness ==
  \E j \in Jobs :
    /\ args.format = "ico"
    /\ job[j].upscaled
    /\ SourceEdge(j) = 8
    /\ job[j].pc = "done"
    /\ Len(job[j].sizes) = 7

\* The file name of the output path a batch that is not a dry run ends up
\* with for file f: the argument it submits, as convert then determines it.
RealRunName(f) ==
  Name(OutputPath([IdleJob EXCEPT !.file = f,
                                  !.outarg = BatchOutputPath(OutputFolder, f.path, args.format)],
                  args.format))

(***************************************************************************)
(* C20.  The dry run and the real run agree on the output names.  A dry    *)
(* run prints, for every discovered file in order, the file name a real    *)
(* run determines for that file; a real run submits, determines and on     *)
(* success returns, for every file, a path whose file name is the one a    *)
(* dry run prints for it.                                                  *)
(***************************************************************************)
C20_PreviewAgrees ==
  /\ (args.input = "dir" /\ args.dry_run /\ mpc \in {"returned", "exit"}
        /\ image_files # <<>>)
     => /\ Len(preview) = Len(image_files)
        /\ \A i \in 1..Len(preview) :
             preview[i] = <<Name(image_files[i].path), RealRunName(image_files[i])>>
  /\ (args.input = "dir" /\ ~args.dry_run /\ mpc \in {"collect", "returned", "exit"})
     => /\ \A j \in Submitted :
             LET printed == DryRunName(image_files[j].path, args.format)
             IN  /\ Name(job[j].outarg) = printed
                 /\ job[j].out # NoPath => Name(job[j].out) = printed
        /\ \A i \in 1..Len(converted) :
             \E j \in Submitted :
               /\ job[j].pc = "done"
               /\ converted[i] = job[j].out
               /\ Name(converted[i]) = DryRunName(image_files[j].path, args.format)

C20_Witness ==
  /\ args.dry_run
  /\ mpc = "returned"
  /\ Len(preview) = 2
  /\ preview[1] = <<<<"b", ".JPG">>, <<"b", ".ico">>>>

====
